---- MODULE Spec2Model ----
(***************************************************************************)
(* Model of simple_value_object/value_object.py: the construction pipeline *)
(* of ValueObject.__new__ (parameter binding, replacement of mutable       *)
(* keyword values, invariant execution), the mutation block __setattr__,   *)
(* structural equality / repr / hash, and immutable_dict.                  *)
(*                                                                         *)
(* Python values are records [t |-> <type name>, v |-> <payload>].         *)
(* Containers keep their iteration order in the payload: a list, tuple or  *)
(* set is the sequence of its elements, a dict the sequence of its         *)
(* <<key, value>> items in insertion order.  Container elements are        *)
(* integers.  Formatting follows Python 3.                                 *)
(***************************************************************************)
EXTENDS Integers, Sequences, FiniteSets, TLC

VARIABLES
  ref,      \* ref.self, ref.other: the two references the caller holds (None or an instance)
  made,     \* made.self, made.other: the construction call that produced each reference
  outcome   \* the last operation, the exception it signalled and the value it returned

vars == <<ref, made, outcome>>

---------------------------------------------------------------------------
(* Bounds *)

MaxSupplied == 2       \* values (positional + keyword) in one construction request
MaxPairSupplied == 1   \* the same, when two instances are built side by side
MaxLen == 3            \* elements in a container the caller keeps mutating

---------------------------------------------------------------------------
(* Python values *)

NoneV == [t |-> "NoneType"]
PyInt(n) == [t |-> "int", v |-> n]
PyFloat(n) == [t |-> "float", v |-> n]
PyBool(x) == [t |-> "bool", v |-> x]
PyStr(s) == [t |-> "str", v |-> s]
PyList(s) == [t |-> "list", v |-> s]
PyTuple(s) == [t |-> "tuple", v |-> s]
PySet(s) == [t |-> "set", v |-> s]
PyDict(s) == [t |-> "dict", v |-> s]

IsNumber(x) == x.t \in {"int", "float", "bool"}

NumVal(x) == IF x.t = "bool" THEN (IF x.v THEN 1 ELSE 0) ELSE x.v

Range(s) == {s[i] : i \in 1..Len(s)}

\* isinstance(value, dict): immutable_dict is a subclass of dict
IsDict(x) == x.t \in {"dict", "immutable_dict"}

\* isinstance(value, (list, set))
IsListOrSet(x) == x.t \in {"list", "set"}

\* x == y on the values of the model
PyEq(x, y) ==
  IF IsNumber(x) /\ IsNumber(y) THEN NumVal(x) = NumVal(y)
  ELSE IF IsDict(x) /\ IsDict(y) THEN Range(x.v) = Range(y.v)
  ELSE IF x.t = "set" /\ y.t = "set" THEN Range(x.v) = Range(y.v)
  ELSE x = y

RECURSIVE Join(_, _)
Join(strs, sep) ==
  IF Len(strs) = 0 THEN ""
  ELSE IF Len(strs) = 1 THEN strs[1]
  ELSE strs[1] \o sep \o Join(Tail(strs), sep)

\* "{}".format(x), which is str(x)
Format(x) ==
  CASE x.t = "NoneType" -> "None"
    [] x.t = "int" -> ToString(x.v)
    [] x.t = "float" -> ToString(x.v) \o ".0"
    [] x.t = "bool" -> IF x.v THEN "True" ELSE "False"
    [] x.t = "str" -> x.v
    [] x.t = "list" -> "[" \o Join([i \in 1..Len(x.v) |-> ToString(x.v[i])], ", ") \o "]"
    [] x.t = "tuple" ->
         IF Len(x.v) = 1 THEN "(" \o ToString(x.v[1]) \o ",)"
         ELSE "(" \o Join([i \in 1..Len(x.v) |-> ToString(x.v[i])], ", ") \o ")"
    [] x.t = "set" ->
         IF Len(x.v) = 0 THEN "set()"
         ELSE "{" \o Join([i \in 1..Len(x.v) |-> ToString(x.v[i])], ", ") \o "}"
    [] IsDict(x) ->
         "{" \o Join([i \in 1..Len(x.v) |->
                       ToString(x.v[i][1]) \o ": " \o ToString(x.v[i][2])], ", ") \o "}"

\* dict.update(d, e)
Update(d, e) ==
  [k \in (DOMAIN d) \cup (DOMAIN e) |-> IF k \in DOMAIN e THEN e[k] ELSE d[k]]

---------------------------------------------------------------------------
(* Deriving classes the constructor is exercised on.  Each is given by     *)
(* what ArgsSpec(self.__init__) and inspect.getmembers(cls, is_invariant)  *)
(* return for it:                                                          *)
(*   class Money: def __init__(self, amount, currency="USD")               *)
(*                @invariant amount_not_negative: instance.amount >= 0     *)
(*   class Price: def __init__(self, amount, currency="USD")               *)
(*   class Flag:  def __init__(self, amount)                               *)
(*                @invariant always: True                                  *)
(*                @invariant echo: instance.amount                         *)
(*   class Empty: def __init__(self)                                       *)

Classes == {"Money", "Price", "Flag", "Empty"}

\* args_spec.args
SpecArgs(cls) ==
  CASE cls \in {"Money", "Price"} -> <<"self", "amount", "currency">>
    [] cls = "Flag" -> <<"self", "amount">>
    [] cls = "Empty" -> <<"self">>

\* args_spec.defaults, with None read as ()
SpecDefaults(cls) ==
  IF cls \in {"Money", "Price"} THEN <<PyStr("USD")>> ELSE <<>>

\* the members of cls that is_invariant accepts, in getmembers' (name) order
obtain_invariants(cls) ==
  CASE cls = "Money" -> <<"amount_not_negative">>
    [] cls = "Flag" -> <<"always", "echo">>
    [] OTHER -> <<>>

Raise(e) == [t |-> "raise", v |-> e]

\* invariant(self, self): what the predicate returns for an instance whose
\* __dict__ is d; a predicate that reads a missing attribute or compares a
\* non-number with 0 raises instead of returning
InvariantCall(invariant, d) ==
  CASE invariant = "always" -> PyBool(TRUE)
    [] invariant = "echo" ->
         IF "amount" \in DOMAIN d THEN d["amount"] ELSE Raise("AttributeError")
    [] invariant = "amount_not_negative" ->
         IF "amount" \notin DOMAIN d THEN Raise("AttributeError")
         ELSE IF IsNumber(d["amount"]) THEN PyBool(NumVal(d["amount"]) >= 0)
         ELSE Raise("TypeError")

---------------------------------------------------------------------------
(* ValueObject.__new__ *)

MIN_NUMBER_ARGS == 1

Min(m, n) == IF m < n THEN m ELSE n

\* check_class_are_initialized testing only the first positional value
check_class_are_initialized_first_only(cls, args) ==
  IF Len(SpecArgs(cls)) <= MIN_NUMBER_ARGS THEN "NotDeclaredArgsException"
  ELSE IF Len(args) > 0 /\ args[1] = NoneV THEN "ArgWithoutValueException"
  ELSE "none"

\* the exception check_class_are_initialized raises, or "none"
check_class_are_initialized(cls, args) ==
  IF Len(SpecArgs(cls)) <= MIN_NUMBER_ARGS THEN "NotDeclaredArgsException"
  ELSE IF \E i \in 1..Len(args) : args[i] = NoneV THEN "ArgWithoutValueException"
  ELSE "none"

\* immutable_dict(value)
immutable_dict(value) == [t |-> "immutable_dict", v |-> value.v]

\* tuple(value)
tuple(value) == [t |-> "tuple", v |-> value.v]

\* the value kwargs[arg] holds after the loop body ran for it
Replaced(value) ==
  IF IsDict(value) THEN immutable_dict(value)
  ELSE IF IsListOrSet(value) THEN tuple(value)
  ELSE value

\* kwargs after replace_mutable_kwargs_with_immutable_types
replace_mutable_kwargs_with_immutable_types(kwargs) ==
  [arg \in DOMAIN kwargs |-> Replaced(kwargs[arg])]

\* dict(zip(args_spec.args[:0:-1], defaults[::-1]))
assign_default_values(cls) ==
  LET sa == SpecArgs(cls)
      df == SpecDefaults(cls)
      n == Min(Len(sa) - 1, Len(df))
  IN [name \in {sa[Len(sa) - j] : j \in 0..(n - 1)} |->
        LET j == CHOOSE j \in 0..(n - 1) : sa[Len(sa) - j] = name
        IN df[Len(df) - j]]

\* override_default_values_with_args with the two lists concatenated the
\* other way round: dict(list(kwargs.items()) + list(zip(args_spec.args[1:], args)))
override_default_values_kwargs_first(cls, args, kwargs) ==
  LET sa == SpecArgs(cls)
      n == Min(Len(sa) - 1, Len(args))
      positional == [name \in {sa[i + 1] : i \in 1..n} |->
                       LET i == CHOOSE i \in 1..n : sa[i + 1] = name IN args[i]]
  IN Update(kwargs, positional)

\* dict(list(zip(args_spec.args[1:], args)) + list(kwargs.items()))
override_default_values_with_args(cls, args, kwargs) ==
  LET sa == SpecArgs(cls)
      n == Min(Len(sa) - 1, Len(args))
      positional == [name \in {sa[i + 1] : i \in 1..n} |->
                       LET i == CHOOSE i \in 1..n : sa[i + 1] = name IN args[i]]
  IN Update(positional, kwargs)

\* self.__dict__ after assign_instance_arguments
assign_instance_arguments(cls, args, kwargs) ==
  Update(assign_default_values(cls), override_default_values_with_args(cls, args, kwargs))

\* bool(x)
Truthy(x) ==
  CASE x.t = "NoneType" -> FALSE
    [] x.t = "bool" -> x.v
    [] x.t \in {"int", "float"} -> x.v # 0
    [] x.t = "str" -> x.v # ""
    [] OTHER -> Len(x.v) > 0

\* invariant_execute without the isinstance(return_value, bool) test
invariant_execute_unchecked(invariant, d) ==
  LET return_value == InvariantCall(invariant, d)
  IN IF return_value.t = "raise" THEN [exc |-> return_value.v, val |-> FALSE]
     ELSE [exc |-> "none", val |-> Truthy(return_value)]

\* the exception invariant_execute raises, or "none" with the returned bool
invariant_execute(invariant, d) ==
  LET return_value == InvariantCall(invariant, d)
  IN IF return_value.t = "raise" THEN [exc |-> return_value.v, val |-> FALSE]
     ELSE IF return_value.t # "bool"
       THEN [exc |-> "InvariantReturnValueException", val |-> FALSE]
     ELSE [exc |-> "none", val |-> return_value.v]

\* the exception check_invariants raises over invariants[i..], or "none"
RECURSIVE check_invariants_from(_, _, _)
check_invariants_from(invariants, i, d) ==
  IF i > Len(invariants) THEN "none"
  ELSE LET r == invariant_execute(invariants[i], d)
       IN IF r.exc # "none" THEN r.exc
          ELSE IF ~r.val THEN "ViolatedInvariantException"
          ELSE check_invariants_from(invariants, i + 1, d)

check_invariants(cls, d) == check_invariants_from(obtain_invariants(cls), 1, d)

NoDict == <<>>

\* __new__(cls, *args, **kwargs): the exception raised, or "none" and the
\* __dict__ of the instance returned
__new__(cls, args, kwargs) ==
  LET c == check_class_are_initialized(cls, args)
      kw == replace_mutable_kwargs_with_immutable_types(kwargs)
      d == assign_instance_arguments(cls, args, kw)
      v == check_invariants(cls, d)
  IN IF c # "none" THEN [exc |-> c, dict |-> NoDict]
     ELSE IF v # "none" THEN [exc |-> v, dict |-> NoDict]
     ELSE [exc |-> "none", dict |-> d]

\* whether the call cls.__init__(self, *args, **kwargs), which follows a
\* successful __new__, binds its arguments; it raises TypeError otherwise
InitBinds(cls, args, kwargs) ==
  LET sa == SpecArgs(cls)
      nfields == Len(sa) - 1
      required == nfields - Len(SpecDefaults(cls))
  IN /\ Len(args) <= nfields
     /\ \A k \in DOMAIN kwargs : \E i \in 1..nfields : sa[i + 1] = k
     /\ \A i \in 1..Min(nfields, Len(args)) : sa[i + 1] \notin DOMAIN kwargs
     /\ \A i \in 1..required : i <= Len(args) \/ sa[i + 1] \in DOMAIN kwargs

\* cls(*args, **kwargs)
Call(cls, args, kwargs) ==
  LET n == __new__(cls, args, kwargs)
  IN IF n.exc # "none" THEN n
     ELSE IF ~InitBinds(cls, args, kwargs) THEN [exc |-> "TypeError", dict |-> NoDict]
     ELSE n

---------------------------------------------------------------------------
(* Operations on a constructed instance.  Each returns the exception it    *)
(* raises ("none" if it returns), the value it returns and, where it can   *)
(* write, the instance's __dict__ afterwards.                              *)

Instance(cls, d) == [t |-> "instance", cls |-> cls, dict |-> d]

IsInstance(x) == x.t = "instance"

\* object.__setattr__: the assignment a class without the override performs
object_setattr(d, name, value) ==
  [exc |-> "none", dict |-> Update(d, [k \in {name} |-> value])]

\* ValueObject.__setattr__(self, name, value)
__setattr__(d, name, value) == [exc |-> "CannotBeChangeException", dict |-> d]

\* del self.name: ValueObject does not define __delattr__, object's applies
__delattr__(d, name) ==
  IF name \in DOMAIN d
    THEN [exc |-> "none", dict |-> [k \in (DOMAIN d) \ {name} |-> d[k]]]
    ELSE [exc |-> "AttributeError", dict |-> d]

\* d == e on two instance __dict__s
DictEq(d, e) == DOMAIN d = DOMAIN e /\ \A k \in DOMAIN d : PyEq(d[k], e[k])

\* ValueObject.__eq__(self, other)
__eq__(self, other) ==
  IF other = NoneV THEN [exc |-> "none", val |-> PyBool(FALSE)]
  ELSE [exc |-> "none", val |-> PyBool(DictEq(self.dict, other.dict))]

\* ValueObject.__ne__(self, other): None has no __dict__
__ne__(self, other) ==
  IF other = NoneV THEN [exc |-> "AttributeError", val |-> NoneV]
  ELSE [exc |-> "none", val |-> PyBool(~DictEq(self.dict, other.dict))]

\* ValueObject.__repr__(self); getattr raises for a deleted attribute
__repr__(self) ==
  LET sa == SpecArgs(self.cls)
      args_values == [i \in 1..(Len(sa) - 1) |->
                        sa[i + 1] \o "=" \o Format(self.dict[sa[i + 1]])]
  IN IF \E i \in 2..Len(sa) : sa[i] \notin DOMAIN self.dict
       THEN [exc |-> "AttributeError", val |-> NoneV]
       ELSE [exc |-> "none",
             val |-> PyStr(self.cls \o "(" \o Join(args_values, ", ") \o ")")]

\* __hash__(s) of a str: equal strings hash equally; distinct strings are taken
\* to hash differently (no collision among the strings of the model)
StrHash(s) == [t |-> "hash", v |-> s.v]

\* ValueObject.__hash__(self), through the hash property
__hash__(self) ==
  LET r == __repr__(self)
  IN IF r.exc # "none" THEN r ELSE [exc |-> "none", val |-> StrHash(r.val)]

---------------------------------------------------------------------------
(* dict and its subclass immutable_dict *)

DictOps == {"__setitem__", "__delitem__", "clear", "update", "setdefault", "pop", "popitem"}

HasKey(items, k) == \E i \in 1..Len(items) : items[i][1] = k

SetItem(items, k, v) ==
  IF HasKey(items, k)
    THEN [i \in 1..Len(items) |-> IF items[i][1] = k THEN <<k, v>> ELSE items[i]]
    ELSE Append(items, <<k, v>>)

DelItem(items, k) == SelectSeq(items, LAMBDA it : it[1] # k)

\* the builtin dict method op applied to the dict value d with key k, value v
dict_op(op, d, k, v) ==
  CASE op \in {"__setitem__", "update"} ->
         [exc |-> "none", val |-> [d EXCEPT !.v = SetItem(d.v, k, v)]]
    [] op = "setdefault" ->
         [exc |-> "none",
          val |-> IF HasKey(d.v, k) THEN d ELSE [d EXCEPT !.v = Append(d.v, <<k, v>>)]]
    [] op \in {"__delitem__", "pop"} ->
         IF HasKey(d.v, k) THEN [exc |-> "none", val |-> [d EXCEPT !.v = DelItem(d.v, k)]]
         ELSE [exc |-> "KeyError", val |-> d]
    [] op = "clear" -> [exc |-> "none", val |-> [d EXCEPT !.v = <<>>]]
    [] op = "popitem" ->
         IF Len(d.v) = 0 THEN [exc |-> "KeyError", val |-> d]
         ELSE [exc |-> "none", val |-> [d EXCEPT !.v = SubSeq(d.v, 1, Len(d.v) - 1)]]

\* immutable_dict with popitem left out of the overridden methods
_immutable_but_popitem(op, d, k, v) ==
  IF op = "popitem" THEN dict_op(op, d, k, v)
  ELSE [exc |-> "CannotBeChangeException", val |-> d]

\* immutable_dict._immutable, bound to each of the seven methods
_immutable(op, d, k, v) == [exc |-> "CannotBeChangeException", val |-> d]

\* a mutating method of a list, set or dict the caller still holds
container_op(c, op, k, v) ==
  CASE c.t = "list" -> [exc |-> "none", val |-> [c EXCEPT !.v = Append(c.v, k)]]
    [] c.t = "set" ->
         [exc |-> "none",
          val |-> IF k \in Range(c.v) THEN c ELSE [c EXCEPT !.v = Append(c.v, k)]]
    [] c.t = "dict" -> dict_op(op, c, k, v)

---------------------------------------------------------------------------
(* Inputs *)

Values ==
  {PyInt(10), PyInt(-5), PyBool(TRUE), NoneV, PyStr("EUR"),
   PyList(<<1, 2>>), PySet(<<0, 8>>), PyDict(<< <<1, 2>> >>)}

\* values that compare equal without being identical, for the side-by-side runs
PairValues ==
  {PyInt(10), PyFloat(10), PyList(<<1, 2>>), PySet(<<0, 8>>), PySet(<<8, 0>>),
   PyDict(<< <<1, 2>>, <<3, 4>> >>), PyDict(<< <<3, 4>>, <<1, 2>> >>)}

PairClasses == {"Money", "Price"}

KwNames == {"amount", "currency"}

AttrNames == {"amount", "currency", "total"}

Elements == {1, 3}

\* the requests (*args, **kwargs) that supply at most n values drawn from vals
Requests(vals, n) ==
  {r \in [args : UNION {[1..m -> vals] : m \in 0..n},
          kwargs : UNION {[S -> vals] : S \in SUBSET KwNames}] :
     Len(r.args) + Cardinality(DOMAIN r.kwargs) <= n}

NoCall == [exc |-> "not called"]

NoOutcome == [op |-> "none", exc |-> "none", val |-> NoneV]

Slots == {"self", "other"}

Init ==
  /\ ref = [s \in Slots |-> NoneV]
  /\ made = [s \in Slots |-> NoCall]
  /\ outcome = NoOutcome

\* slot = cls(*args, **kwargs), the one construction call made for that name
Construct(slot, classes, requests) ==
  /\ made[slot] = NoCall
  /\ \E cls \in classes, r \in requests :
       LET n == __new__(cls, r.args, r.kwargs)
           c == Call(cls, r.args, r.kwargs)
       IN /\ made' = [made EXCEPT ![slot] =
                        [cls |-> cls, args |-> r.args, kwargs |-> r.kwargs,
                         new |-> n, exc |-> c.exc]]
          /\ ref' = [ref EXCEPT ![slot] =
                       IF c.exc = "none" THEN Instance(cls, c.dict) ELSE NoneV]
          /\ outcome' = [op |-> "construct", exc |-> c.exc, val |-> NoneV]

\* self.name = value
SetAttr ==
  /\ IsInstance(ref.self)
  /\ \E name \in AttrNames, value \in Values :
       LET r == __setattr__(ref.self.dict, name, value)
       IN /\ ref' = [ref EXCEPT !.self.dict = r.dict]
          /\ outcome' = [op |-> "setattr", exc |-> r.exc, val |-> NoneV]
  /\ UNCHANGED made

\* del self.name
DelAttr ==
  /\ IsInstance(ref.self)
  /\ \E name \in AttrNames :
       LET r == __delattr__(ref.self.dict, name)
       IN /\ ref' = [ref EXCEPT !.self.dict = r.dict]
          /\ outcome' = [op |-> "delattr", exc |-> r.exc, val |-> NoneV]
  /\ UNCHANGED made

\* self.name.op(k, v) on a field that holds an immutable_dict
FrozenOp ==
  /\ IsInstance(ref.self)
  /\ \E name \in DOMAIN ref.self.dict, op \in DictOps, k \in Elements, v \in Elements :
       /\ ref.self.dict[name].t = "immutable_dict"
       /\ LET r == _immutable(op, ref.self.dict[name], k, v)
          IN /\ ref' = [ref EXCEPT !.self.dict[name] = r.val]
             /\ outcome' = [op |-> op, exc |-> r.exc, val |-> NoneV]
  /\ UNCHANGED made

\* the caller mutates a list, set or dict it passed in: lines 43 and 48
\* store the very object, so the instance's field is that object
CallerMutates ==
  /\ IsInstance(ref.self)
  /\ \E name \in DOMAIN ref.self.dict, op \in DictOps, k \in Elements, v \in Elements :
       /\ ref.self.dict[name].t \in {"list", "set", "dict"}
       /\ Len(ref.self.dict[name].v) < MaxLen
       /\ LET r == container_op(ref.self.dict[name], op, k, v)
          IN /\ ref' = [ref EXCEPT !.self.dict[name] = r.val]
             /\ outcome' = [op |-> "caller mutates", exc |-> r.exc, val |-> NoneV]
  /\ UNCHANGED made

\* self == other
Eq ==
  /\ IsInstance(ref.self)
  /\ LET r == __eq__(ref.self, ref.other)
     IN outcome' = [op |-> "eq", exc |-> r.exc, val |-> r.val]
  /\ UNCHANGED <<ref, made>>

\* self != other
Ne ==
  /\ IsInstance(ref.self)
  /\ LET r == __ne__(ref.self, ref.other)
     IN outcome' = [op |-> "ne", exc |-> r.exc, val |-> r.val]
  /\ UNCHANGED <<ref, made>>

\* repr(self)
Repr ==
  /\ IsInstance(ref.self)
  /\ LET r == __repr__(ref.self)
     IN outcome' = [op |-> "repr", exc |-> r.exc, val |-> r.val]
  /\ UNCHANGED <<ref, made>>

\* hash(self)
Hash ==
  /\ IsInstance(ref.self)
  /\ LET r == __hash__(ref.self)
     IN outcome' = [op |-> "hash", exc |-> r.exc, val |-> r.val]
  /\ UNCHANGED <<ref, made>>

\* one instance and everything a caller can do with it
Next ==
  \/ Construct("self", Classes, Requests(Values, MaxSupplied))
  \/ SetAttr
  \/ DelAttr
  \/ FrozenOp
  \/ CallerMutates
  \/ Eq
  \/ Ne
  \/ Repr
  \/ Hash

Spec == Init /\ [][Next]_vars

\* two instances built side by side and compared
NextPair ==
  \/ Construct("self", PairClasses, Requests(PairValues, MaxPairSupplied))
  \/ Construct("other", PairClasses, Requests(PairValues, MaxPairSupplied))
  \/ Eq
  \/ Ne
  \/ Hash

SpecPair == Init /\ [][NextPair]_vars

---------------------------------------------------------------------------
(* What the contract says of a construction request, stated without the    *)
(* constructor: the declared fields, and the value a request supplies for  *)
(* a field by the precedence keyword > positional > default.               *)

DeclaredFields(cls) == {SpecArgs(cls)[i] : i \in 2..Len(SpecArgs(cls))}

FieldIndex(cls, f) == CHOOSE i \in 1..(Len(SpecArgs(cls)) - 1) : SpecArgs(cls)[i + 1] = f

FirstDefaulted(cls) == Len(SpecArgs(cls)) - Len(SpecDefaults(cls))

HasDefault(cls, f) == FieldIndex(cls, f) >= FirstDefaulted(cls)

IsSupplied(m, f) ==
  \/ f \in DOMAIN m.kwargs
  \/ FieldIndex(m.cls, f) <= Len(m.args)
  \/ HasDefault(m.cls, f)

Chosen(m, f) ==
  IF f \in DOMAIN m.kwargs THEN m.kwargs[f]
  ELSE IF FieldIndex(m.cls, f) <= Len(m.args) THEN m.args[FieldIndex(m.cls, f)]
  ELSE SpecDefaults(m.cls)[FieldIndex(m.cls, f) - FirstDefaulted(m.cls) + 1]

\* bound is the raw value, or the immutable replacement of the raw value
IsValueOrFrozen(bound, raw) ==
  \/ bound = raw
  \/ raw.t \in {"list", "set"} /\ bound = PyTuple(raw.v)
  \/ raw.t \in {"dict", "immutable_dict"} /\ bound.t = "immutable_dict" /\ bound.v = raw.v

Called(slot) == made[slot] # NoCall

Returned(slot) == Called(slot) /\ made[slot].exc = "none"

SameEffectiveValues(m1, m2) ==
  /\ m1.cls = m2.cls
  /\ \A f \in DeclaredFields(m1.cls) :
       /\ IsSupplied(m1, f) /\ IsSupplied(m2, f)
       /\ Chosen(m1, f) = Chosen(m2, f)

---------------------------------------------------------------------------
(* Claims *)

\* C1: two requests of one type that resolve to the same effective field
\* values and both construct give instances that are equal, hash equally and
\* have the same string representation.
C1_SameValuesSameInstance ==
  (Returned("self") /\ Returned("other") /\ SameEffectiveValues(made.self, made.other))
    => /\ __eq__(ref.self, ref.other).val = PyBool(TRUE)
       /\ __hash__(ref.self) = __hash__(ref.other)
       /\ __repr__(ref.self) = __repr__(ref.other)

\* C2: every attribute assignment on a constructed instance signals
\* CannotBeChangeException and leaves every field value as it was.
C2_SetAttrAlwaysRejected ==
  [][outcome'.op = "setattr"
       => (outcome'.exc = "CannotBeChangeException" /\ ref' = ref)]_vars

C2_Witness ==
  /\ outcome.op = "setattr"
  /\ outcome.exc = "CannotBeChangeException"
  /\ IsInstance(ref.self)
  /\ ref.self.dict = made.self.new.dict

\* C3: once construction returned the instance, its field name -> value
\* mapping stays what it was, and every attribute assignment, attribute
\* deletion and mutation of a supplied container fails.
C3_BoundFieldsNeverChange ==
  IsInstance(ref.self)
    => /\ ref.self.dict = made.self.new.dict
       /\ outcome.op \in {"setattr", "delattr", "caller mutates"} => outcome.exc # "none"

\* C4: no bound field of a constructed instance holds a plain dict, list or
\* set: a mapping is bound as an immutable_dict, a list or set as a tuple,
\* however the value was supplied.
C4_NoMutableContainerBound ==
  Returned("self")
    => \A f \in DOMAIN made.self.new.dict :
         LET bound == made.self.new.dict[f]
         IN /\ bound.t \notin {"dict", "list", "set"}
            /\ f \in DeclaredFields(made.self.cls) =>
                 LET raw == Chosen(made.self, f)
                 IN /\ IsDict(raw) => bound.t = "immutable_dict"
                    /\ IsListOrSet(raw) => bound.t = "tuple"

\* C5: an instance is returned only if every invariant of the type returned
\* the boolean True; the first predicate that does not return True makes
\* construction signal ViolatedInvariantException if it returned False and
\* InvariantReturnValueException if it returned a non-boolean, and then no
\* instance is returned.
C5_InvariantsDecideConstruction ==
  (Called("self") /\ check_class_are_initialized(made.self.cls, made.self.args) = "none")
    => LET m == made.self
           d == assign_instance_arguments(
                  m.cls, m.args, replace_mutable_kwargs_with_immutable_types(m.kwargs))
           invs == obtain_invariants(m.cls)
           ret == [i \in 1..Len(invs) |-> InvariantCall(invs[i], d)]
           Evaluated(i) == \A j \in 1..(i - 1) : ret[j] = PyBool(TRUE)
       IN /\ IsInstance(ref.self) => \A i \in 1..Len(invs) : ret[i] = PyBool(TRUE)
          /\ \A i \in 1..Len(invs) :
               /\ (Evaluated(i) /\ ret[i] = PyBool(FALSE))
                    => (m.exc = "ViolatedInvariantException" /\ ref.self = NoneV)
               /\ (Evaluated(i) /\ ret[i].t \notin {"bool", "raise"})
                    => (m.exc = "InvariantReturnValueException" /\ ref.self = NoneV)

C5_Witness ==
  /\ Called("self")
  /\ made.self.cls = "Flag"
  /\ made.self.kwargs = [k \in {"amount"} |-> NoneV]
  /\ made.self.exc = "InvariantReturnValueException"
  /\ ref.self = NoneV

\* C6: whenever __new__ returns, every declared field is bound by the
\* precedence keyword > positional > default, defaults being aligned to the
\* last declared fields; the bound value is the chosen value (or its
\* immutable replacement), and a field no source supplies is not bound.
C6_KeywordPositionalDefault ==
  (Called("self") /\ made.self.new.exc = "none")
    => \A f \in DeclaredFields(made.self.cls) :
         /\ (f \in DOMAIN made.self.new.dict) <=> IsSupplied(made.self, f)
         /\ IsSupplied(made.self, f)
              => IsValueOrFrozen(made.self.new.dict[f], Chosen(made.self, f))

C6_Witness ==
  /\ IsInstance(ref.self)
  /\ made.self.cls = "Money"
  /\ made.self.args = <<PyInt(10)>>
  /\ made.self.kwargs = [k \in {"currency"} |-> PyStr("EUR")]
  /\ ref.self.dict = [k \in {"amount", "currency"} |->
                        IF k = "amount" THEN PyInt(10) ELSE PyStr("EUR")]

\* C7: two constructed instances, of the same or of different types, that
\* are equal under __eq__ have equal hashes.
C7_EqualInstancesHashEqually ==
  (IsInstance(ref.self) /\ IsInstance(ref.other)
     /\ __eq__(ref.self, ref.other).val = PyBool(TRUE))
    => __hash__(ref.self).val = __hash__(ref.other).val

\* C8: self != other returns the negation of self == other and signals no
\* error, for another instance and for None (where it returns True).
C8_NeNegatesEq ==
  outcome.op = "ne"
    => /\ outcome.exc = "none"
       /\ outcome.val = PyBool(~__eq__(ref.self, ref.other).val.v)

\* C9 as stated: a request with None among its positional values signals
\* ArgWithoutValueException and returns no instance, for every type.
C9_NonePositionalAlwaysMissingValue ==
  (Called("self") /\ \E i \in 1..Len(made.self.args) : made.self.args[i] = NoneV)
    => (made.self.exc = "ArgWithoutValueException" /\ ref.self = NoneV)

\* C9 amended: for every type that declares at least one field, a request
\* with None among its positional values signals ArgWithoutValueException
\* and returns no instance, whatever else it supplies.
C9_NonePositionalMissingValueIfDeclared ==
  (Called("self") /\ DeclaredFields(made.self.cls) # {}
     /\ \E i \in 1..Len(made.self.args) : made.self.args[i] = NoneV)
    => (made.self.exc = "ArgWithoutValueException" /\ ref.self = NoneV)

C9_Witness ==
  /\ Called("self")
  /\ made.self.cls = "Money"
  /\ made.self.args = <<PyInt(10), NoneV>>
  /\ made.self.exc = "ArgWithoutValueException"
  /\ ref.self = NoneV

\* C10: each of __setitem__, __delitem__, clear, update, setdefault, pop and
\* popitem on a frozen mapping signals CannotBeChangeException, and after any
\* sequence of them the mapping holds the items it was created with.
C10_FrozenMappingKeepsItems ==
  IsInstance(ref.self)
    => /\ outcome.op \in DictOps => outcome.exc = "CannotBeChangeException"
       /\ \A f \in DOMAIN ref.self.dict :
            made.self.new.dict[f].t = "immutable_dict"
              => ref.self.dict[f] = made.self.new.dict[f]

C10_Witness ==
  /\ IsInstance(ref.self)
  /\ outcome.op = "popitem"
  /\ outcome.exc = "CannotBeChangeException"
  /\ ref.self.dict["amount"] = [t |-> "immutable_dict", v |-> << <<1, 2>> >>]

====
